---- MODULE Spec2Model ----
(***************************************************************************)
(* A model of the racecar_core library: the Racecar control loop           *)
(* (library/racecar_core.py) with its Drive and Controller modules, and    *)
(* the Lidar module (library/lidar.py).                                    *)
(*                                                                         *)
(* Threads:                                                                *)
(*   - the loop thread, Racecar.__run, started by Racecar.__init__;        *)
(*   - the controller thread of the XboxController driver, which delivers  *)
(*     every raw control callback (buttons, triggers, joysticks, START,    *)
(*     BACK), one at a time;                                               *)
(*   - the subscriber thread that delivers Lidar.__scan_callback;          *)
(*   - user threads that call the public accessors.                        *)
(*                                                                         *)
(* Python floats are fixed-point integers: the integer n stands for the    *)
(* float n / Resolution.                                                   *)
(***************************************************************************)
EXTENDS Integers, Sequences, FiniteSets, TLC

----------------------------------------------------------------------------
(* Bounds of the model *)

\* fixed-point steps per unit of a float value
Resolution == 2
\* the buttons with value < NumRawButtons receive raw events
NumRawButtons == 2
\* how far beyond the clamping bounds the user's commands reach
Over == 1
\* the user start action is counted up to MaxStarts invocations
MaxStarts == 2
\* a lidar scan holds at most MaxScanLen ranges
MaxScanLen == 2
\* each range of a scan is one of 1..MaxRange
MaxRange == 2

(* Constants of the program *)

MAX_SPEED == 5
MAX_ANGLE == 20
SPEED_MULTIPLIER == 1
ANGLE_MULTIPLIER == 20
\* len(self.Button)
NumButtons == 8

----------------------------------------------------------------------------
VARIABLES
    \* Racecar
    __cur_update,      \* "default" (__default_update) or "user" (__user_update)
    __user_start,      \* "None" or "fn"
    __user_update,     \* "None" or "fn"
    loop_pc,           \* the position of the loop thread in __run
    \* Racecar.Drive
    __message,         \* the pending AckermannDriveStamped: [speed, angle]
    published,         \* the /drive topic (queue_size = 1): <<>> or <<command>>
    \* Racecar.Controller
    __was_down, __is_down, __cur_down,
    __last_trigger, __cur_trigger,
    __last_joystick, __cur_joystick,
    __cur_start, __cur_back,
    ctl_pc,            \* the controller thread: "idle", "user_start", "dead"
    exited,            \* __handle_exit has run
    controlValues,     \* the driver's latest value of each joystick axis that has
                       \* a callback
    \* history of the run, for the properties
    userStartCalls,    \* invocations of __user_start so far (up to MaxStarts)
    lastUpdate,        \* the update action the latest tick invoked
    lastSet,           \* the arguments of the latest set_speed_angle: <<>> or <<speed, angle>>
    flushes,           \* the flushes since the latest set_speed_angle (or since
                       \* construction): 0, 1, or 2 for two and more
    snap, prevSnap,    \* the raw button values read by the two latest commits
    pressedBefore,     \* was_pressed of each button, as the previous tick saw it
    committedAxes,     \* the driver's axis values when the latest commit ran
    tickLog,           \* what the loop thread has done in the tick in progress:
                       \* a sequence of "update", "flush", "commit"
    rawAge,            \* for each button, the commits (self.__is_down = ...)
                       \* since its latest raw callback: "0", "1", "2" (two and
                       \* more), or "mid0", "mid1" if that callback ran while
                       \* Controller.__update was in progress
    \* a user thread that evaluates was_pressed, then was_released, of a button
    rd_pc,             \* "idle", "pressed_is", "pressed_was", "released_is",
                       \* "released_was", "done"
    rd_button,         \* the button it asks about
    rd_pressed,        \* what was_pressed returned
    rd_released,       \* what was_released returned
    rd_commit,         \* "none", "begun" or "whole": how much of one
                       \* Controller.__update ran since the evaluation began
    \* Lidar
    __length, __ranges, _event,
    scan_pc,           \* the subscriber thread in __scan_callback: "idle",
                       \* "set_ranges", "set_event"
    scan_data,         \* data.ranges of the callback in progress
    arrived,           \* <<>>, or <<the latest scan whose callback has completed>>
    get_pc,            \* a user thread in get_length / get_ranges: "idle",
                       \* "wait", "return", "done"
    get_call,          \* the call in progress: [fn, timeout, arrivedBefore]
    get_waited,        \* the call found the event clear and had to wait
    get_timed_out,     \* the call's wait ended by its timeout
    get_result,        \* <<>> or <<what the call returned>>
    \* a user thread that calls drive.set_speed_angle
    set_pc,            \* "idle", or the statement it is about to execute:
                       \* "new", "speed", "angle"
    set_cmd,           \* <<>> or <<speed, angle>>, the arguments of the call
    \* an accessor call with an arbitrary argument
    acc_call,          \* <<>> or <<accessor name, argument>>
    acc_result         \* <<>> or <<the value returned>>

racecarVars == <<__cur_update, __user_start, __user_update, loop_pc>>
driveVars == <<__message, published>>
buttonVars == <<__was_down, __is_down, __cur_down>>
triggerVars == <<__last_trigger, __cur_trigger>>
joystickVars == <<__last_joystick, __cur_joystick, controlValues, committedAxes>>
modeVars == <<__cur_start, __cur_back, ctl_pc, exited>>
historyVars == <<userStartCalls, lastUpdate, lastSet, flushes, snap, prevSnap,
                 pressedBefore, tickLog, rawAge>>

readerVars == <<rd_pc, rd_button, rd_pressed, rd_released, rd_commit>>
lidarVars == <<__length, __ranges, _event, scan_pc, scan_data, arrived,
               get_pc, get_call, get_waited, get_timed_out, get_result>>
accessorVars == <<acc_call, acc_result>>
setterVars == <<set_pc, set_cmd>>
otherVars == <<readerVars, lidarVars, accessorVars, setterVars>>

vars == <<racecarVars, driveVars, buttonVars, triggerVars, joystickVars,
          modeVars, historyVars, otherVars>>

----------------------------------------------------------------------------
(* Python values *)

Min(a, b) == IF a < b THEN a ELSE b
Max(a, b) == IF a > b THEN a ELSE b

\* a member of an Enum class: its class and its value
Member(cls, value) == [cls |-> cls, value |-> value]

Button == [A |-> Member("Button", 0), B |-> Member("Button", 1),
           X |-> Member("Button", 2), Y |-> Member("Button", 3),
           LB |-> Member("Button", 4), RB |-> Member("Button", 5),
           LJOY |-> Member("Button", 6), RJOY |-> Member("Button", 7)]

Trigger == [LEFT |-> Member("Trigger", 0), RIGHT |-> Member("Trigger", 1)]

Joystick == [LEFT |-> Member("Joystick", 0), RIGHT |-> Member("Joystick", 1)]

Members(enum) == {enum[n] : n \in DOMAIN enum}

isinstance(x, cls) == x.cls = cls

\* a two-element Python list or tuple
Pair(x, y) == [i \in 0..1 |-> IF i = 0 THEN x ELSE y]

----------------------------------------------------------------------------
(* Racecar.Drive *)

\* AckermannDriveStamped()
NewMessage == [speed |-> 0, angle |-> 0]

\* (mutant) the lower bounds are not applied
set_speed_angle_NoLower(speed, angle) ==
    [speed |-> Min(MAX_SPEED * Resolution, speed),
     angle |-> Min(MAX_ANGLE * Resolution, angle)]

set_speed_angle(speed, angle) ==
    [speed |-> Max(-(MAX_SPEED * Resolution), Min(MAX_SPEED * Resolution, speed)),
     angle |-> Max(-(MAX_ANGLE * Resolution), Min(MAX_ANGLE * Resolution, angle))]

stop == set_speed_angle(0, 0)

\* Drive.__update: publish the pending message
Publish(msg) == <<msg>>

----------------------------------------------------------------------------
(* Racecar.Controller: accessors *)

is_down(button) ==
    IF isinstance(button, "Button") THEN __is_down[button.value] ELSE FALSE

was_pressed(button) ==
    IF isinstance(button, "Button")
    THEN __is_down[button.value] /\ ~__was_down[button.value]
    ELSE FALSE

was_released(button) ==
    IF isinstance(button, "Button")
    THEN ~__is_down[button.value] /\ __was_down[button.value]
    ELSE FALSE

\* (mutant) the value of the argument is checked, not its class
get_trigger_ByValue(trigger) ==
    IF trigger.value \in DOMAIN __last_trigger
    THEN __last_trigger[trigger.value]
    ELSE 0

get_trigger(trigger) ==
    IF isinstance(trigger, "Trigger") THEN __last_trigger[trigger.value] ELSE 0

get_joystick(joystick) ==
    IF isinstance(joystick, "Joystick")
    THEN __last_joystick[joystick.value]
    ELSE Pair(0, 0)

----------------------------------------------------------------------------
(* Racecar.__default_update *)

\* (mutant) the safety stop is missing
DefaultSpeed_NoSafety ==
    (get_trigger(Trigger.LEFT) - get_trigger(Trigger.RIGHT)) * SPEED_MULTIPLIER

DefaultSpeed ==
    LET forwardSpeed == get_trigger(Trigger.LEFT)
        backSpeed == get_trigger(Trigger.RIGHT)
        speed == (forwardSpeed - backSpeed) * SPEED_MULTIPLIER
    IN  IF forwardSpeed > 0 /\ backSpeed > 0 THEN 0 ELSE speed

DefaultAngle == get_joystick(Joystick.LEFT)[0] * ANGLE_MULTIPLIER

----------------------------------------------------------------------------
(* The loop thread: Racecar.__run *)

\* what a step of the loop thread never changes
loopFrame == <<__cur_update, __user_start, __user_update, modeVars,
               userStartCalls, rd_pc, rd_button, rd_pressed, rd_released,
               lidarVars, accessorVars, setterVars>>

\* was_pressed of every button, as the update action of a tick sees it
PressedNow == [i \in 0..(NumButtons - 1) |-> was_pressed(Member("Button", i))]

\* self.__cur_update() with __cur_update = __default_update
DefaultUpdate ==
    /\ loop_pc = "cur_update"
    /\ __cur_update = "default"
    /\ __message' = set_speed_angle(DefaultSpeed, DefaultAngle)
    /\ lastSet' = <<DefaultSpeed, DefaultAngle>>
    /\ flushes' = 0
    /\ lastUpdate' = "default"
    /\ pressedBefore' = PressedNow
    /\ tickLog' = Append(tickLog, "update")
    /\ loop_pc' = "drive_update"
    /\ UNCHANGED <<loopFrame, published, buttonVars, triggerVars, joystickVars,
                   snap, prevSnap, rd_commit, rawAge>>

\* self.__cur_update() with __cur_update = __user_update: the user's update
\* action calls set_speed_angle with a command of cmds, or stop, or neither
UserUpdate(cmds) ==
    /\ loop_pc = "cur_update"
    /\ __cur_update = "user"
    /\ \/ \E c \in cmds :
            /\ __message' = set_speed_angle(c[1], c[2])
            /\ lastSet' = c
            /\ flushes' = 0
       \/ /\ __message' = stop
          /\ lastSet' = <<0, 0>>
          /\ flushes' = 0
       \/ UNCHANGED <<__message, lastSet, flushes>>
    /\ lastUpdate' = "user"
    /\ pressedBefore' = PressedNow
    /\ tickLog' = Append(tickLog, "update")
    /\ loop_pc' = "drive_update"
    /\ UNCHANGED <<loopFrame, published, buttonVars, triggerVars, joystickVars,
                   snap, prevSnap, rd_commit, rawAge>>

\* (mutant) the flush takes the pending command away
DriveUpdate_Reset ==
    /\ loop_pc = "drive_update"
    /\ published' = Publish(__message)
    /\ __message' = NewMessage
    /\ flushes' = Min(flushes + 1, 2)
    /\ tickLog' = Append(tickLog, "flush")
    /\ loop_pc' = "copy_was_down"
    /\ UNCHANGED <<loopFrame, buttonVars, triggerVars, joystickVars,
                   lastUpdate, lastSet, snap, prevSnap, pressedBefore,
                   rd_commit, rawAge>>

\* __update_modules: self.drive._Drive__update()
DriveUpdate ==
    /\ loop_pc = "drive_update"
    /\ published' = Publish(__message)
    /\ flushes' = Min(flushes + 1, 2)
    /\ tickLog' = Append(tickLog, "flush")
    /\ loop_pc' = "copy_was_down"
    /\ UNCHANGED <<loopFrame, __message, buttonVars, triggerVars, joystickVars,
                   lastUpdate, lastSet, snap, prevSnap, pressedBefore,
                   rd_commit, rawAge>>

\* a commit later
Aged(age) ==
    CASE age = "0" -> "1"
      [] age = "mid0" -> "mid1"
      [] OTHER -> "2"

\* Controller.__update has begun and has not returned
Committing == loop_pc \in {"copy_is_down", "copy_trigger", "copy_joystick"}

\* the user thread is between the first and the last read of an evaluation
Evaluating == rd_pc \in {"pressed_was", "released_is", "released_was"}

\* (mutant) the previous snapshot is not kept
CopyWasDown_Skipped ==
    /\ loop_pc = "copy_was_down"
    /\ rd_commit' = IF Evaluating /\ rd_commit = "none" THEN "begun" ELSE rd_commit
    /\ loop_pc' = "copy_is_down"
    /\ UNCHANGED <<loopFrame, driveVars, buttonVars, triggerVars,
                   joystickVars, lastUpdate, lastSet, flushes, snap, prevSnap,
                   pressedBefore, tickLog, rawAge>>

\* Controller.__update, its four statements
\* self.__was_down = copy.deepcopy(self.__is_down)
CopyWasDown ==
    /\ loop_pc = "copy_was_down"
    /\ __was_down' = __is_down
    /\ rd_commit' = IF Evaluating /\ rd_commit = "none" THEN "begun" ELSE rd_commit
    /\ loop_pc' = "copy_is_down"
    /\ UNCHANGED <<loopFrame, driveVars, __is_down, __cur_down, triggerVars,
                   joystickVars, lastUpdate, lastSet, flushes, snap, prevSnap,
                   pressedBefore, tickLog, rawAge>>

\* (mutant) the commit clears the raw values it has copied
CopyIsDown_Clear ==
    /\ loop_pc = "copy_is_down"
    /\ __is_down' = __cur_down
    /\ __cur_down' = [i \in DOMAIN __cur_down |-> FALSE]
    /\ prevSnap' = snap
    /\ snap' = __cur_down
    /\ rawAge' = [i \in DOMAIN rawAge |-> Aged(rawAge[i])]
    /\ rd_commit' = IF Evaluating /\ rd_commit = "begun" THEN "whole" ELSE rd_commit
    /\ loop_pc' = "copy_trigger"
    /\ UNCHANGED <<loopFrame, driveVars, __was_down, triggerVars,
                   joystickVars, lastUpdate, lastSet, flushes, pressedBefore, tickLog>>

\* self.__is_down = copy.deepcopy(self.__cur_down)
CopyIsDown ==
    /\ loop_pc = "copy_is_down"
    /\ __is_down' = __cur_down
    /\ prevSnap' = snap
    /\ snap' = __cur_down
    /\ rawAge' = [i \in DOMAIN rawAge |-> Aged(rawAge[i])]
    /\ rd_commit' = IF Evaluating /\ rd_commit = "begun" THEN "whole" ELSE rd_commit
    /\ loop_pc' = "copy_trigger"
    /\ UNCHANGED <<loopFrame, driveVars, __was_down, __cur_down, triggerVars,
                   joystickVars, lastUpdate, lastSet, flushes, pressedBefore, tickLog>>

\* self.__last_trigger = copy.deepcopy(self.__cur_trigger)
CopyTrigger ==
    /\ loop_pc = "copy_trigger"
    /\ __last_trigger' = __cur_trigger
    /\ loop_pc' = "copy_joystick"
    /\ UNCHANGED <<loopFrame, driveVars, buttonVars, __cur_trigger,
                   joystickVars, lastUpdate, lastSet, flushes, snap, prevSnap,
                   pressedBefore, rd_commit, tickLog, rawAge>>

\* (mutant) the command is published once more after the commit
CopyJoystick_Republish ==
    /\ loop_pc = "copy_joystick"
    /\ __last_joystick' = __cur_joystick
    /\ committedAxes' = controlValues
    /\ published' = Publish(__message)
    /\ tickLog' = tickLog \o <<"commit", "flush">>
    /\ loop_pc' = "sleep"
    /\ UNCHANGED <<loopFrame, __message, buttonVars, triggerVars,
                   __cur_joystick, controlValues, lastUpdate, lastSet, flushes,
                   snap, prevSnap, pressedBefore, rd_commit, rawAge>>

\* self.__last_joystick = copy.deepcopy(self.__cur_joystick)
CopyJoystick ==
    /\ loop_pc = "copy_joystick"
    /\ __last_joystick' = __cur_joystick
    /\ committedAxes' = controlValues
    /\ tickLog' = Append(tickLog, "commit")
    /\ loop_pc' = "sleep"
    /\ UNCHANGED <<loopFrame, driveVars, buttonVars, triggerVars,
                   __cur_joystick, controlValues, lastUpdate, lastSet, flushes, snap, prevSnap,
                   pressedBefore, rd_commit, rawAge>>

\* timer.sleep()
Sleep ==
    /\ loop_pc = "sleep"
    /\ tickLog' = <<>>
    /\ loop_pc' = "cur_update"
    /\ UNCHANGED <<loopFrame, driveVars, buttonVars, triggerVars, joystickVars,
                   lastUpdate, lastSet, flushes, snap, prevSnap, pressedBefore,
                   rd_commit, rawAge>>

ControllerUpdate == CopyWasDown \/ CopyIsDown \/ CopyTrigger \/ CopyJoystick

----------------------------------------------------------------------------
(* The controller thread: the callbacks registered by Controller.__init__ *)

\* the buttons, trigger values and joystick values the raw input delivers
RawButtons == {b \in Members(Button) : b.value < NumRawButtons}
TriggerValues == 0..Resolution
\* a stick at one end, at rest, or at the other end
JoystickValues == {-Resolution, 0, Resolution}

\* setupControlCallback(XboxControls.<control>, ...) for the buttons
ButtonCallbacks ==
    [A |-> Button.A, B |-> Button.B, X |-> Button.X, Y |-> Button.Y,
     LB |-> Button.LB, RB |-> Button.RB,
     LEFTTHUMB |-> Button.LJOY, RIGHTTHUMB |-> Button.RJOY]

\* setupControlCallback(XboxControls.<control>, ...) for the triggers
TriggerCallbacks == [LTRIGGER |-> Trigger.LEFT, RTRIGGER |-> Trigger.RIGHT]

\* setupControlCallback(XboxControls.<control>, ...) for the joystick axes, in
\* the order of the calls
JoystickCallbacks ==
    << [control |-> "LTHUMBX", joystick |-> Joystick.RIGHT, axis |-> 0],
       [control |-> "LTHUMBY", joystick |-> Joystick.RIGHT, axis |-> 1],
       [control |-> "RTHUMBX", joystick |-> Joystick.RIGHT, axis |-> 0],
       [control |-> "RTHUMBX", joystick |-> Joystick.RIGHT, axis |-> 1] >>

\* the joystick axes of the physical controller
JoystickControls == {"LTHUMBX", "LTHUMBY", "RTHUMBX", "RTHUMBY"}

\* The callbacks an event of a control invokes. A control registered twice
\* invokes its latest registration, or both registrations in their order: the
\* driver decides, and both are modelled.
RegisteredFor(control) ==
    SelectSeq(JoystickCallbacks, LAMBDA r : r.control = control)

\* an event of a control with no callback changes nothing of the program
RegisteredControls == {c \in JoystickControls : RegisteredFor(c) # <<>>}

Deliveries(control) ==
    LET regs == RegisteredFor(control)
    IN  {regs, <<regs[Len(regs)]>>}

\* Controller.__button_callback
button_callback(button, value) ==
    __cur_down' = [__cur_down EXCEPT ![button.value] = (value # 0)]

\* Controller.__trigger_callback
trigger_callback(trigger, value) ==
    __cur_trigger' = [__cur_trigger EXCEPT ![trigger.value] = value]

\* Controller.__joystick_callback, as a function of the raw array
joystick_callback(cur, joystick, axis, value) ==
    [cur EXCEPT ![joystick.value][axis] = value]

RECURSIVE Deliver(_, _, _)
Deliver(cur, regs, value) ==
    IF regs = <<>> THEN cur
    ELSE Deliver(joystick_callback(cur, Head(regs).joystick, Head(regs).axis, value),
                 Tail(regs), value)

\* a raw event of a button: the driver invokes its callback
ButtonDelivery(control, value) ==
    /\ ctl_pc = "idle"
    /\ ButtonCallbacks[control] \in RawButtons
    /\ button_callback(ButtonCallbacks[control], value)
    /\ UNCHANGED <<otherVars, racecarVars, driveVars, __was_down, __is_down,
                   triggerVars, joystickVars, modeVars, userStartCalls,
                   lastUpdate, lastSet, flushes, snap, prevSnap, pressedBefore,
                   tickLog>>

ButtonEvent ==
    /\ \E control \in DOMAIN ButtonCallbacks, value \in {0, 1} :
          ButtonDelivery(control, value)
    /\ UNCHANGED rawAge

\* the same, with the history of the button's raw callbacks kept
ButtonEventAged ==
    \E control \in DOMAIN ButtonCallbacks, value \in {0, 1} :
        /\ ButtonDelivery(control, value)
        /\ rawAge' = [rawAge EXCEPT ![ButtonCallbacks[control].value] =
                          IF Committing THEN "mid0" ELSE "0"]

\* (mutant) the callback writes the committed snapshot as well
TriggerDelivery_Committed(control, value) ==
    /\ ctl_pc = "idle"
    /\ trigger_callback(TriggerCallbacks[control], value)
    /\ __last_trigger' =
          [__last_trigger EXCEPT ![TriggerCallbacks[control].value] = value]
    /\ UNCHANGED <<otherVars, racecarVars, driveVars, buttonVars,
                   joystickVars, modeVars, historyVars>>

\* a raw event of a trigger: the driver invokes its callback
TriggerDelivery(control, value) ==
    /\ ctl_pc = "idle"
    /\ trigger_callback(TriggerCallbacks[control], value)
    /\ UNCHANGED <<otherVars, racecarVars, driveVars, buttonVars,
                   __last_trigger, joystickVars, modeVars, historyVars>>

TriggerEvent ==
    \E control \in DOMAIN TriggerCallbacks, value \in TriggerValues :
        TriggerDelivery(control, value)

\* a raw event of a joystick axis: the driver invokes its callback or callbacks
JoystickDelivery(control, value) ==
    /\ ctl_pc = "idle"
    /\ controlValues' = [controlValues EXCEPT ![control] = value]
    /\ \E regs \in Deliveries(control) :
          __cur_joystick' = Deliver(__cur_joystick, regs, value)
    /\ UNCHANGED <<otherVars, racecarVars, driveVars, buttonVars, triggerVars,
                   __last_joystick, committedAxes, modeVars, historyVars>>

JoystickEvent ==
    \E control \in RegisteredControls, value \in JoystickValues :
        JoystickDelivery(control, value)

\* An exception leaves a callback (SystemExit from exit(0), or a TypeError):
\* it ends the controller thread, unless the driver catches it and goes on.
Raise == ctl_pc' \in {"dead", "idle"}

\* Racecar.__handle_exit, called in the controller thread
handle_exit ==
    /\ exited' = TRUE
    /\ Raise
    /\ UNCHANGED <<__cur_update, userStartCalls>>

\* Racecar.__handle_start up to the call of the user's start action, which
\* then runs in the controller thread
handle_start ==
    /\ exited' = exited
    /\ IF __user_start = "None"
       THEN Raise /\ UNCHANGED <<__cur_update, userStartCalls>>
       ELSE /\ ctl_pc' = "user_start"
            /\ userStartCalls' = userStartCalls + 1
            /\ UNCHANGED __cur_update

\* (mutant) the update action is not switched
UserStartReturn_NoSwitch ==
    /\ ctl_pc = "user_start"
    /\ ctl_pc' = "idle"
    /\ UNCHANGED <<otherVars, racecarVars, driveVars, buttonVars, triggerVars,
                   joystickVars, __cur_start, __cur_back, exited, historyVars>>

\* Racecar.__handle_start from the return of the user's start action
UserStartReturn ==
    /\ ctl_pc = "user_start"
    /\ __cur_update' = IF __user_update = "None" THEN "None" ELSE "user"
    /\ ctl_pc' = "idle"
    /\ UNCHANGED <<otherVars, __user_start, __user_update, loop_pc, driveVars,
                   buttonVars, triggerVars, joystickVars, __cur_start,
                   __cur_back, exited, historyVars>>

\* (mutant) the update action is not switched back
handle_back_NoSwitch ==
    UNCHANGED <<__cur_update, ctl_pc, exited, userStartCalls>>

\* Racecar.__handle_back: __default_start is a no-op
handle_back ==
    /\ __cur_update' = "default"
    /\ UNCHANGED <<ctl_pc, exited, userStartCalls>>

\* Controller.__start_callback
start_callback(value) ==
    /\ __cur_start' = value
    /\ IF value # 0
       THEN IF __cur_back # 0 THEN handle_exit ELSE handle_start
       ELSE UNCHANGED <<__cur_update, ctl_pc, exited, userStartCalls>>
    /\ UNCHANGED __cur_back

\* Controller.__back_callback
back_callback(value) ==
    /\ __cur_back' = value
    /\ IF value # 0
       THEN IF __cur_start # 0 THEN handle_exit ELSE handle_back
       ELSE UNCHANGED <<__cur_update, ctl_pc, exited, userStartCalls>>
    /\ UNCHANGED __cur_start

\* START and BACK are momentary buttons: the driver reports each change
StartEvent ==
    /\ ctl_pc = "idle"
    /\ \E value \in {0, 1} :
          /\ value # __cur_start
          /\ value # 0 => userStartCalls < MaxStarts
          /\ start_callback(value)
    /\ UNCHANGED <<otherVars, __user_start, __user_update, loop_pc, driveVars,
                   buttonVars, triggerVars, joystickVars,
                   lastUpdate, lastSet, flushes, snap, prevSnap, pressedBefore, tickLog, rawAge>>

BackEvent ==
    /\ ctl_pc = "idle"
    /\ \E value \in {0, 1} :
          /\ value # __cur_back
          /\ back_callback(value)
    /\ UNCHANGED <<otherVars, __user_start, __user_update, loop_pc, driveVars,
                   buttonVars, triggerVars, joystickVars,
                   lastUpdate, lastSet, flushes, snap, prevSnap, pressedBefore, tickLog, rawAge>>

----------------------------------------------------------------------------
(* The main thread *)

\* Racecar.set_start_update, with two functions
set_start_update ==
    /\ __user_start' = "fn"
    /\ __user_update' = "fn"
    /\ UNCHANGED <<otherVars, __cur_update, loop_pc, driveVars, buttonVars,
                   triggerVars, joystickVars, modeVars, historyVars>>

----------------------------------------------------------------------------
(* Racecar.__init__ *)

\* Controller.__init__: the arrays of the committed and of the raw state
InitController ==
    /\ __was_down = [i \in 0..(NumButtons - 1) |-> FALSE]
    /\ __is_down = [i \in 0..(NumButtons - 1) |-> FALSE]
    /\ __cur_down = [i \in 0..(NumButtons - 1) |-> FALSE]
    /\ __last_trigger = Pair(0, 0)
    /\ __cur_trigger = Pair(0, 0)
    /\ __last_joystick = Pair(Pair(0, 0), Pair(0, 0))
    /\ __cur_joystick = Pair(Pair(0, 0), Pair(0, 0))

\* the rest of Racecar.__init__ and Lidar.__init__, and the threads at their start
InitRest ==
    /\ __cur_update = "default"
    /\ __user_start = "None"
    /\ __user_update = "None"
    /\ loop_pc = "cur_update"
    /\ __message = NewMessage
    /\ published = <<>>
    /\ __cur_start = 0
    /\ __cur_back = 0
    /\ ctl_pc = "idle"
    /\ exited = FALSE
    /\ controlValues = [control \in RegisteredControls |-> 0]
    /\ committedAxes = [control \in RegisteredControls |-> 0]
    /\ userStartCalls = 0
    /\ lastUpdate = "none"
    /\ lastSet = <<>>
    /\ flushes = 0
    /\ snap = [i \in 0..(NumButtons - 1) |-> FALSE]
    /\ prevSnap = [i \in 0..(NumButtons - 1) |-> FALSE]
    /\ pressedBefore = [i \in 0..(NumButtons - 1) |-> FALSE]
    /\ tickLog = <<>>
    /\ rawAge = [i \in 0..(NumButtons - 1) |-> "2"]
    /\ rd_pc = "idle"
    /\ rd_button = Button.A
    /\ rd_pressed = FALSE
    /\ rd_released = FALSE
    /\ rd_commit = "none"
    /\ __length = 0
    /\ __ranges = <<>>
    /\ _event = FALSE
    /\ scan_pc = "idle"
    /\ scan_data = <<>>
    /\ arrived = <<>>
    /\ get_pc = "idle"
    /\ get_call = [fn |-> "get_length", timeout |-> "None", arrivedBefore |-> FALSE]
    /\ get_waited = FALSE
    /\ get_timed_out = FALSE
    /\ get_result = <<>>
    /\ acc_call = <<>>
    /\ acc_result = <<>>
    /\ set_pc = "idle"
    /\ set_cmd = <<>>

Init == InitController /\ InitRest

----------------------------------------------------------------------------
(* The control loop and its mode switches *)

\* the commands the user's update action gives in this specification
ModeCommands == {<<Resolution, -(3 * Resolution)>>}
\* the commands a user thread gives
SetterCommands == {<<2 * Resolution, 4 * Resolution>>}

Loop(cmds) ==
    \/ DefaultUpdate
    \/ UserUpdate(cmds)
    \/ DriveUpdate
    \/ ControllerUpdate
    \/ Sleep

Next ==
    \/ Loop(ModeCommands)
    \/ BackEvent
    \/ StartEvent
    \/ UserStartReturn
    \/ set_start_update

Spec == Init /\ [][Next]_vars

(* The same, with the raw events of button A *)

\* a raw event of button A
ButtonAEvent ==
    /\ \E value \in {0, 1} : ButtonDelivery("A", value)
    /\ UNCHANGED rawAge

NextTick ==
    \/ Next
    \/ ButtonAEvent

SpecTick == Init /\ [][NextTick]_vars

----------------------------------------------------------------------------
(* A user thread that calls was_pressed(button), then was_released(button).
   Each call reads self.__is_down[button.value] and then, unless the first
   operand already decides the result, self.__was_down[button.value]; the loop
   thread may run between any two reads. *)

readerFrame == <<racecarVars, driveVars, buttonVars, triggerVars,
                 joystickVars, modeVars, historyVars, lidarVars, accessorVars, setterVars>>

\* was_pressed: self.__is_down[button.value] and ...
ReadPressedIsDown ==
    /\ rd_pc = "idle"
    /\ \E button \in RawButtons :
          /\ rd_button' = button
          /\ IF __is_down[button.value]
             THEN rd_pc' = "pressed_was" /\ UNCHANGED rd_pressed
             ELSE rd_pc' = "released_is" /\ rd_pressed' = FALSE
    /\ rd_commit' = "none"
    /\ UNCHANGED <<readerFrame, rd_released>>

\* was_pressed: ... and not self.__was_down[button.value]
ReadPressedWasDown ==
    /\ rd_pc = "pressed_was"
    /\ rd_pressed' = ~__was_down[rd_button.value]
    /\ rd_pc' = "released_is"
    /\ UNCHANGED <<readerFrame, rd_button, rd_released, rd_commit>>

\* (mutant) was_released without its "not"
ReadReleasedIsDown_NoNot ==
    /\ rd_pc = "released_is"
    /\ IF __is_down[rd_button.value]
       THEN rd_pc' = "released_was" /\ UNCHANGED rd_released
       ELSE rd_pc' = "done" /\ rd_released' = FALSE
    /\ UNCHANGED <<readerFrame, rd_button, rd_pressed, rd_commit>>

\* was_released: not self.__is_down[button.value] and ...
ReadReleasedIsDown ==
    /\ rd_pc = "released_is"
    /\ IF ~__is_down[rd_button.value]
       THEN rd_pc' = "released_was" /\ UNCHANGED rd_released
       ELSE rd_pc' = "done" /\ rd_released' = FALSE
    /\ UNCHANGED <<readerFrame, rd_button, rd_pressed, rd_commit>>

\* was_released: ... and self.__was_down[button.value]
ReadReleasedWasDown ==
    /\ rd_pc = "released_was"
    /\ rd_released' = __was_down[rd_button.value]
    /\ rd_pc' = "done"
    /\ UNCHANGED <<readerFrame, rd_button, rd_pressed, rd_commit>>

\* the user thread goes on to its next evaluation
ReaderReturn ==
    /\ rd_pc = "done"
    /\ rd_pc' = "idle"
    /\ rd_pressed' = FALSE
    /\ rd_released' = FALSE
    /\ rd_commit' = "none"
    /\ UNCHANGED <<readerFrame, rd_button>>

Reader ==
    \/ ReadPressedIsDown
    \/ ReadPressedWasDown
    \/ ReadReleasedIsDown
    \/ ReadReleasedWasDown
    \/ ReaderReturn

----------------------------------------------------------------------------
(* The loop in default drive mode, the raw button events and a user thread *)

LoopDefault ==
    \/ DefaultUpdate
    \/ DriveUpdate
    \/ ControllerUpdate
    \/ Sleep

NextButtons ==
    \/ LoopDefault
    \/ ButtonEvent
    \/ Reader

SpecButtons == Init /\ [][NextButtons]_vars

----------------------------------------------------------------------------
(* The loop in default drive mode and the raw trigger events *)

NextTriggers ==
    \/ LoopDefault
    \/ TriggerEvent

SpecTriggers == Init /\ [][NextTriggers]_vars

(* The loop in default drive mode and the raw events of all controls. One
   control is in use at a time: a raw event of a control arrives while
   every other control is at rest and committed at rest. *)

OthersAtRest(control) ==
    /\ \A c \in DOMAIN ButtonCallbacks \ {control} :
          LET i == ButtonCallbacks[c].value
          IN  ~__cur_down[i] /\ ~__is_down[i] /\ ~__was_down[i]
    /\ \A c \in DOMAIN TriggerCallbacks \ {control} :
          LET i == TriggerCallbacks[c].value
          IN  __cur_trigger[i] = 0 /\ __last_trigger[i] = 0
    /\ \A c \in RegisteredControls \ {control} :
          controlValues[c] = 0 /\ committedAxes[c] = 0

ButtonAlone ==
    /\ \E control \in DOMAIN ButtonCallbacks, value \in {0, 1} :
          OthersAtRest(control) /\ ButtonDelivery(control, value)
    /\ UNCHANGED rawAge

TriggerAlone ==
    \E control \in DOMAIN TriggerCallbacks, value \in TriggerValues :
        OthersAtRest(control) /\ TriggerDelivery(control, value)

JoystickAlone ==
    \E control \in RegisteredControls, value \in JoystickValues :
        OthersAtRest(control) /\ JoystickDelivery(control, value)

NextRaw ==
    \/ LoopDefault
    \/ ButtonAlone
    \/ TriggerAlone
    \/ JoystickAlone

SpecRaw == Init /\ [][NextRaw]_vars

(* The loop in default drive mode and the raw button events, with the age of
   each button's latest raw callback *)

NextCommit ==
    \/ LoopDefault
    \/ ButtonEventAged

SpecCommit == Init /\ [][NextCommit]_vars

(* The loop in default drive mode and the raw joystick events *)

NextJoystick ==
    \/ LoopDefault
    \/ JoystickEvent

SpecJoystick == Init /\ [][NextJoystick]_vars

----------------------------------------------------------------------------
(* The control loop with a user program that commands speeds and angles
   around the bounds of the drive *)

\* 0 and the values within Over steps of m or of -m
Around(m) ==
    {x \in (-(m + Over))..(m + Over) : x = 0 \/ x >= m - Over \/ x <= Over - m}

DriveCommands ==
    Around(MAX_SPEED * Resolution) \X Around(MAX_ANGLE * Resolution)

NextDrive ==
    \/ Loop(DriveCommands)
    \/ BackEvent
    \/ StartEvent
    \/ UserStartReturn
    \/ set_start_update

SpecDrive == Init /\ [][NextDrive]_vars

----------------------------------------------------------------------------
(* A user thread that calls drive.set_speed_angle while the loop runs.
   set_speed_angle clamps its arguments, binds a new AckermannDriveStamped()
   to self.__message, and then stores the speed and the angle in
   self.__message, one statement each; the loop thread may run between any
   two of them. *)

setterFrame == <<racecarVars, buttonVars, triggerVars, joystickVars, modeVars,
                 userStartCalls, lastUpdate, snap, prevSnap, pressedBefore,
                 tickLog, rawAge, readerVars, lidarVars, accessorVars>>

\* the call, and the clamping of its arguments
SetCall ==
    /\ set_pc = "idle"
    /\ \E c \in SetterCommands : set_cmd' = c
    /\ set_pc' = "new"
    /\ UNCHANGED <<setterFrame, driveVars, lastSet, flushes>>

\* self.__message = AckermannDriveStamped()
SetNew ==
    /\ set_pc = "new"
    /\ __message' = NewMessage
    /\ set_pc' = "speed"
    /\ UNCHANGED <<setterFrame, published, lastSet, flushes, set_cmd>>

\* self.__message.drive.speed = speed
SetSpeed ==
    /\ set_pc = "speed"
    /\ __message' = [__message EXCEPT
                        !.speed = set_speed_angle(set_cmd[1], set_cmd[2]).speed]
    /\ set_pc' = "angle"
    /\ UNCHANGED <<setterFrame, published, lastSet, flushes, set_cmd>>

\* self.__message.drive.steering_angle = angle, and the call returns
SetAngle ==
    /\ set_pc = "angle"
    /\ __message' = [__message EXCEPT
                        !.angle = set_speed_angle(set_cmd[1], set_cmd[2]).angle]
    /\ lastSet' = set_cmd
    /\ flushes' = 0
    /\ set_cmd' = <<>>
    /\ set_pc' = "idle"
    /\ UNCHANGED <<setterFrame, published>>

Setter == SetCall \/ SetNew \/ SetSpeed \/ SetAngle

NextSetter ==
    \/ Next
    \/ Setter

SpecSetter == Init /\ [][NextSetter]_vars

----------------------------------------------------------------------------
(* Lidar *)

RECURSIVE SeqsUpTo(_, _)
\* the sequences over S of length at most n
SeqsUpTo(S, n) ==
    IF n = 0 THEN {<<>>}
    ELSE LET shorter == SeqsUpTo(S, n - 1)
         IN  shorter \cup {Append(q, x) : q \in shorter, x \in S}

\* data.ranges of the scans the sensor delivers
Scans == SeqsUpTo(1..MaxRange, MaxScanLen)

lidarFrame == <<racecarVars, driveVars, buttonVars, triggerVars, joystickVars,
                modeVars, historyVars, readerVars, accessorVars, setterVars>>
getVars == <<get_pc, get_call, get_waited, get_timed_out, get_result>>
scanVars == <<__length, __ranges, _event, scan_pc, scan_data, arrived>>

\* Lidar.__scan_callback: self.__length = len(data.ranges)
ScanSetLength ==
    /\ scan_pc = "idle"
    /\ \E ranges \in Scans :
          /\ scan_data' = ranges
          /\ __length' = Len(ranges)
    /\ scan_pc' = "set_ranges"
    /\ UNCHANGED <<lidarFrame, getVars, __ranges, _event, arrived>>

\* Lidar.__scan_callback: self.__ranges = data.ranges
ScanSetRanges ==
    /\ scan_pc = "set_ranges"
    /\ __ranges' = scan_data
    /\ scan_pc' = "set_event"
    /\ UNCHANGED <<lidarFrame, getVars, __length, _event, scan_data, arrived>>

\* (mutant) the waiters are not woken
ScanSetEvent_NoSet ==
    /\ scan_pc = "set_event"
    /\ arrived' = <<scan_data>>
    /\ scan_data' = <<>>
    /\ scan_pc' = "idle"
    /\ UNCHANGED <<lidarFrame, getVars, __length, __ranges, _event>>

\* Lidar.__scan_callback: self._event.set(), and the callback returns
ScanSetEvent ==
    /\ scan_pc = "set_event"
    /\ _event' = TRUE
    /\ arrived' = <<scan_data>>
    /\ scan_data' = <<>>
    /\ scan_pc' = "idle"
    /\ UNCHANGED <<lidarFrame, getVars, __length, __ranges>>

scan_callback == ScanSetLength \/ ScanSetRanges \/ ScanSetEvent

\* get_length(timeout) or get_ranges(timeout) is called: self._event.wait(timeout)
\* returns at once when the event is set
GetCall ==
    /\ get_pc = "idle"
    /\ \E fn \in {"get_length", "get_ranges"}, timeout \in {"None", "finite"} :
          get_call' = [fn |-> fn, timeout |-> timeout,
                       arrivedBefore |-> arrived # <<>>]
    /\ get_waited' = ~_event
    /\ get_pc' = IF _event THEN "return" ELSE "wait"
    /\ UNCHANGED <<lidarFrame, scanVars, get_timed_out, get_result>>

\* (mutant) the wait ends although the event is not set
GetWake_Spurious ==
    /\ get_pc = "wait"
    /\ get_pc' = "return"
    /\ UNCHANGED <<lidarFrame, scanVars, get_call, get_waited, get_timed_out,
                   get_result>>

\* self._event.wait(timeout): the event is set while the call waits
GetWake ==
    /\ get_pc = "wait"
    /\ _event
    /\ get_pc' = "return"
    /\ UNCHANGED <<lidarFrame, scanVars, get_call, get_waited, get_timed_out,
                   get_result>>

\* self._event.wait(timeout): the timeout elapses
GetTimeout ==
    /\ get_pc = "wait"
    /\ get_call.timeout # "None"
    /\ get_timed_out' = TRUE
    /\ get_pc' = "return"
    /\ UNCHANGED <<lidarFrame, scanVars, get_call, get_waited, get_result>>

\* return self.__length / return self.__ranges
GetReturn ==
    /\ get_pc = "return"
    /\ get_result' = IF get_call.fn = "get_length" THEN <<__length>> ELSE <<__ranges>>
    /\ get_pc' = "done"
    /\ UNCHANGED <<lidarFrame, scanVars, get_call, get_waited, get_timed_out>>

\* the user thread goes on to its next call
GetDone ==
    /\ get_pc = "done"
    /\ get_pc' = "idle"
    /\ get_waited' = FALSE
    /\ get_timed_out' = FALSE
    /\ get_result' = <<>>
    /\ get_call' = [fn |-> "get_length", timeout |-> "None", arrivedBefore |-> FALSE]
    /\ UNCHANGED <<lidarFrame, scanVars>>

Get == GetCall \/ GetWake \/ GetTimeout \/ GetReturn \/ GetDone

NextLidar ==
    \/ scan_callback
    \/ Get

SpecLidar == Init /\ [][NextLidar]_vars

\* The threads keep running: a callback that has begun goes on to its end,
\* and a woken reader goes on to its return. That a scan arrives at all is
\* not assumed.
SpecLidarLive ==
    /\ SpecLidar
    /\ WF_vars(ScanSetRanges)
    /\ WF_vars(ScanSetEvent)
    /\ WF_vars(GetWake)
    /\ WF_vars(GetReturn)

----------------------------------------------------------------------------
(* The accessors of the Controller, called with any argument, in any state
   of the Controller that the raw callbacks and the commits produce *)

\* button arrays in which only the buttons that receive raw events are down
ButtonArrays ==
    {[i \in 0..(NumButtons - 1) |-> i < NumRawButtons /\ down[i]] :
        down \in [0..(NumRawButtons - 1) -> BOOLEAN]}

TriggerArrays == [0..1 -> TriggerValues]

\* the callbacks never write the axes of Joystick.LEFT
JoystickArrays ==
    {Pair(Pair(0, 0), right) : right \in [0..1 -> JoystickValues]}

\* committed arrays of any value; raw arrays equal to them (no raw event
\* since the commit), or all at rest (every control let go since the commit)
AnyController ==
    /\ __was_down \in ButtonArrays
    /\ __is_down \in ButtonArrays
    /\ __last_trigger \in TriggerArrays
    /\ __last_joystick \in JoystickArrays
    /\ \E atRest \in BOOLEAN :
          IF atRest
          THEN /\ __cur_down = [i \in 0..(NumButtons - 1) |-> FALSE]
               /\ __cur_trigger = Pair(0, 0)
               /\ __cur_joystick = Pair(Pair(0, 0), Pair(0, 0))
          ELSE /\ __cur_down = __is_down
               /\ __cur_trigger = __last_trigger
               /\ __cur_joystick = __last_joystick

\* values that are members of no Enum class of the Controller: integers
\* (among them the values of members) and None
NonMembers ==
    {Member("int", v) : v \in 0..NumButtons} \cup {Member("NoneType", 0)}

Arguments ==
    Members(Button) \cup Members(Trigger) \cup Members(Joystick) \cup NonMembers

Accessors == {"is_down", "was_pressed", "was_released", "get_trigger", "get_joystick"}

\* the Enum class an accessor expects
Expects(name) ==
    CASE name = "get_trigger" -> "Trigger"
      [] name = "get_joystick" -> "Joystick"
      [] OTHER -> "Button"

Call(name, arg) ==
    CASE name = "is_down" -> is_down(arg)
      [] name = "was_pressed" -> was_pressed(arg)
      [] name = "was_released" -> was_released(arg)
      [] name = "get_trigger" -> get_trigger(arg)
      [] name = "get_joystick" -> get_joystick(arg)

accessorFrame == <<racecarVars, driveVars, buttonVars, triggerVars,
                   joystickVars, modeVars, historyVars, readerVars, lidarVars, setterVars>>

\* a thread calls an accessor
AccessorCall ==
    /\ acc_call = <<>>
    /\ \E name \in Accessors, arg \in Arguments :
          /\ acc_call' = <<name, arg>>
          /\ acc_result' = <<Call(name, arg)>>
    /\ UNCHANGED accessorFrame

\* the thread goes on to its next call
AccessorReturn ==
    /\ acc_call # <<>>
    /\ acc_call' = <<>>
    /\ acc_result' = <<>>
    /\ UNCHANGED accessorFrame

NextAccessors ==
    \/ AccessorCall
    \/ AccessorReturn

InitAccessors == AnyController /\ InitRest

SpecAccessors == InitAccessors /\ [][NextAccessors]_vars

----------------------------------------------------------------------------
(* Steps of a behaviour, as the properties name them *)

\* the loop thread invokes the active update action
UpdateInvoked == loop_pc = "cur_update" /\ loop_pc' = "drive_update"
\* the loop thread publishes the pending command
CommandPublished == loop_pc = "drive_update" /\ loop_pc' = "copy_was_down"
\* START goes down while BACK is up
StartPressed == __cur_start = 0 /\ __cur_start' # 0 /\ __cur_back = 0
\* BACK goes down while START is up
BackPressed == __cur_back = 0 /\ __cur_back' # 0 /\ __cur_start = 0

----------------------------------------------------------------------------
(* C2: with the user's start and update actions registered, a press of START
   while BACK is up invokes the user start action exactly once; no other step
   (no tick, however long START stays down) invokes it; when the start action
   returns the loop is in user program mode, stays there until BACK is
   pressed, and every tick in that mode invokes the user update action. *)
C2_UserStartOnce ==
    [][ /\ (StartPressed /\ __user_start = "fn")
            => (userStartCalls' = userStartCalls + 1 /\ ctl_pc' = "user_start")
        /\ (userStartCalls' # userStartCalls) => StartPressed
        /\ (ctl_pc = "user_start" /\ ctl_pc' # "user_start")
            => __cur_update' = "user"
        /\ (__cur_update = "user" /\ __cur_update' # "user") => BackPressed
        /\ (UpdateInvoked /\ __cur_update = "user") => lastUpdate' = "user"
      ]_vars

\* START is held, the start action ran once, and a tick has invoked the user
\* update action
C2_Witness ==
    /\ __cur_start = 1 /\ __cur_back = 0
    /\ ctl_pc = "idle"
    /\ userStartCalls = 1
    /\ __cur_update = "user"
    /\ lastUpdate = "user"
    /\ loop_pc = "drive_update"

(* C3: once START and BACK are both down the exit action has run, and from
   then on the loop invokes no update action and publishes no command. *)
C3_HaltAfterExit ==
    [][exited => ~UpdateInvoked /\ ~CommandPublished]_vars

----------------------------------------------------------------------------
(* C1: in every tick, for every button, was_pressed is true exactly when the
   two latest committed snapshots of the raw value show a rising edge (false,
   then true), whatever raw callbacks came between the commits; and it is
   never true in two consecutive ticks, so a button held down over many ticks
   reports was_pressed in the first of them only. *)
C1_PressedOncePerEdge ==
    loop_pc = "cur_update" =>
        \A b \in Members(Button) :
            /\ was_pressed(b) <=> (snap[b.value] /\ ~prevSnap[b.value])
            /\ ~(was_pressed(b) /\ pressedBefore[b.value])

\* a tick that finds button A still down, one tick after the tick that saw
\* its rising edge, while the raw value has already changed again
C1_Witness ==
    /\ loop_pc = "cur_update"
    /\ is_down(Button.A)
    /\ pressedBefore[Button.A.value]
    /\ ~was_pressed(Button.A)
    /\ ~__cur_down[Button.A.value]

(* C4: when the built-in default update has run, the speed it passed to
   set_speed_angle, the pending speed, and then the speed published by the
   flush of that tick, is 0 if both committed trigger values are positive,
   and forward - back otherwise. *)
C4_SafetyStop ==
    LET forward == __last_trigger[Trigger.LEFT.value]
        back == __last_trigger[Trigger.RIGHT.value]
        safe == IF forward > 0 /\ back > 0 THEN 0 ELSE forward - back
    IN  /\ (loop_pc = "drive_update" /\ lastUpdate = "default")
            => (lastSet[1] = safe /\ __message.speed = safe)
        /\ (loop_pc = "copy_was_down" /\ lastUpdate = "default")
            => published[1].speed = safe

\* both triggers are down, by different amounts, and the tick has published
C4_Witness ==
    /\ loop_pc = "copy_was_down"
    /\ lastUpdate = "default"
    /\ __last_trigger[Trigger.LEFT.value] > __last_trigger[Trigger.RIGHT.value]
    /\ __last_trigger[Trigger.RIGHT.value] > 0
    /\ published[1].speed = 0

\* x brought into -m..m
Clamped(x, m) == IF x > m THEN m ELSE IF x < -m THEN -m ELSE x

InRange(cmd) ==
    /\ -(MAX_SPEED * Resolution) <= cmd.speed
    /\ cmd.speed <= MAX_SPEED * Resolution
    /\ -(MAX_ANGLE * Resolution) <= cmd.angle
    /\ cmd.angle <= MAX_ANGLE * Resolution

(* C5: the pending command is the latest arguments of set_speed_angle, the
   speed brought into -5..5 and the angle into -20..20 (so arguments within
   the bounds are stored as they are); the pending command and the published
   command are always within the bounds. *)
C5_Clamped ==
    /\ lastSet # <<>> =>
          /\ __message.speed = Clamped(lastSet[1], MAX_SPEED * Resolution)
          /\ __message.angle = Clamped(lastSet[2], MAX_ANGLE * Resolution)
    /\ InRange(__message)
    /\ published # <<>> => InRange(published[1])

\* a speed above the bound and an angle below the bound were commanded,
\* stored as the bounds, and published
C5_Witness ==
    /\ lastSet # <<>>
    /\ lastSet[1] > MAX_SPEED * Resolution
    /\ lastSet[2] < -(MAX_ANGLE * Resolution)
    /\ __message = [speed |-> MAX_SPEED * Resolution,
                    angle |-> -(MAX_ANGLE * Resolution)]
    /\ published = <<__message>>

(* C6: in default drive mode, the value v of the latest raw horizontal event
   of the left stick (LTHUMBX) before a commit is get_joystick(Joystick.LEFT)[0]
   after that commit, and the next default update commands the angle 20 * v. *)
C6_LeftStickSteers ==
    /\ loop_pc \in {"sleep", "cur_update"}
          => get_joystick(Joystick.LEFT)[0] = committedAxes["LTHUMBX"]
    /\ (loop_pc = "drive_update" /\ lastUpdate = "default")
          => lastSet[2] = ANGLE_MULTIPLIER * committedAxes["LTHUMBX"]

(* C8: was_pressed and was_released of a button are never both true: not in
   any state, and not for a thread that evaluates one and then the other
   while the loop thread commits, unless a whole commit (a tick boundary) ran
   between its first and its last read. *)
C8_NotPressedAndReleased ==
    /\ \A b \in Members(Button) : ~(was_pressed(b) /\ was_released(b))
    /\ (rd_pc = "done" /\ rd_pressed /\ rd_released) => rd_commit = "whole"

\* an evaluation that found the button pressed and then met the first half of
\* a commit before it evaluated was_released
C8_Witness ==
    /\ rd_pc = "done"
    /\ rd_pressed
    /\ ~rd_released
    /\ rd_commit = "begun"

(* C9: a flush publishes the pending command and leaves it pending; a flush
   with no set_speed_angle since the flush before it publishes the same
   command again; a flush before any set_speed_angle publishes (0, 0). *)
C9_FlushIdempotent ==
    [][CommandPublished =>
          /\ published' = <<__message>>
          /\ __message' = __message
          /\ flushes >= 1 => published' = published
          /\ lastSet = <<>> => published' = <<[speed |-> 0, angle |-> 0]>>
      ]_vars

\* a command other than (0, 0) was flushed twice with no set_speed_angle in
\* between
C9_Witness ==
    /\ flushes = 2
    /\ published = <<__message>>
    /\ __message # NewMessage

----------------------------------------------------------------------------
\* what get_length / get_ranges returns of a scan
Returned(fn, ranges) == IF fn = "get_length" THEN Len(ranges) ELSE ranges

(* C7: when a call of get_length / get_ranges returns, it returns the latest
   scan whose arrival has completed (the empty snapshot if there is none) or
   the scan that is arriving at that moment; if no scan has arrived or is
   arriving, it returns because its timeout elapsed, and returns 0 / the
   empty sequence; and a call made after a scan arrival has completed never
   waits. *)
C7_LatestScan ==
    /\ [][(get_pc = "return" /\ get_pc' = "done") =>
            LET fn == get_call.fn
                latest == IF arrived = <<>> THEN <<>> ELSE arrived[1]
            IN  /\ \/ get_result'[1] = Returned(fn, latest)
                   \/ /\ scan_pc # "idle"
                      /\ get_result'[1] = Returned(fn, scan_data)
                /\ (arrived = <<>> /\ scan_pc = "idle")
                      => (get_timed_out /\ get_result'[1] = Returned(fn, <<>>))
        ]_vars
    /\ [](  (get_pc # "idle" /\ get_call.arrivedBefore)
          => (~get_waited /\ ~get_timed_out /\ get_pc # "wait"))

\* a call of get_ranges with no timeout, made after a scan arrived, that
\* returned a scan of full length without waiting, which is the latest one
C7_Witness ==
    /\ get_pc = "done"
    /\ get_call = [fn |-> "get_ranges", timeout |-> "None", arrivedBefore |-> TRUE]
    /\ ~get_waited
    /\ scan_pc = "idle"
    /\ Len(get_result[1]) = MaxScanLen
    /\ get_result = arrived

----------------------------------------------------------------------------
\* what a tick does, in its order
TickOrder == <<"update", "flush", "commit">>

(* C11: what the loop thread has done in a tick is always a beginning of
   (update action, flush, commit), and is all three when the tick sleeps; a
   command is published by the flush only, and it is the pending command; if
   the update action of the tick set a command, the flush of the same tick
   publishes that command, clamped; and the button edges the update action
   saw are those between the raw values that the commits of the two ticks
   before it read. *)
C11_TickOrder ==
    /\ [] /\ Len(tickLog) <= Len(TickOrder)
          /\ tickLog = SubSeq(TickOrder, 1, Len(tickLog))
          /\ loop_pc = "cur_update" => tickLog = <<>>
          /\ loop_pc = "sleep" => tickLog = TickOrder
          /\ (Len(tickLog) >= 2 /\ flushes = 1 /\ lastSet # <<>>) =>
                published = <<[speed |-> Clamped(lastSet[1], MAX_SPEED * Resolution),
                               angle |-> Clamped(lastSet[2], MAX_ANGLE * Resolution)]>>
          /\ loop_pc \in {"drive_update", "copy_was_down"} =>
                /\ __is_down = snap
                /\ __was_down = prevSnap
                /\ \A i \in 0..(NumButtons - 1) :
                      pressedBefore[i] <=> (snap[i] /\ ~prevSnap[i])
    /\ [][ /\ published' # published => CommandPublished
           /\ CommandPublished =>
                 (published' = <<__message>> /\ tickLog' = <<"update", "flush">>)
           /\ UpdateInvoked => (lastUpdate' = __cur_update /\ tickLog' = <<"update">>)
         ]_vars

\* a tick in user program mode is complete: its update action saw the rising
\* edge of button A and set a command other than (0, 0), and its flush
\* published that command
C11_Witness ==
    /\ loop_pc = "sleep"
    /\ tickLog = TickOrder
    /\ lastUpdate = "user"
    /\ pressedBefore[Button.A.value]
    /\ flushes = 1
    /\ published = <<__message>>
    /\ __message # NewMessage

\* the loop thread is between two ticks: asleep, or about to invoke the
\* update action
AtTickBoundary == loop_pc \in {"sleep", "cur_update"}

(* C12: the active update action changes only while the loop thread is
   between two ticks, and a mode entry action (the user start action) runs
   only while the loop thread is between two ticks, never while an update
   action, a flush or a commit of a tick is under way. *)
C12_ModeAtTickBoundary ==
    [][ /\ __cur_update' # __cur_update => AtTickBoundary
        /\ ctl_pc' = "user_start" => AtTickBoundary'
      ]_vars

(* C13: the user start action is invoked only when the loop is not already
   in user program mode; a press of START in user program mode does not
   invoke it again. *)
C13_NoRestartInUserProgram ==
    [][userStartCalls' # userStartCalls => __cur_update # "user"]_vars

\* START or BACK goes up
Released ==
    \/ __cur_start # 0 /\ __cur_start' = 0
    \/ __cur_back # 0 /\ __cur_back' = 0

(* C14: the loop starts in default drive mode; a press of BACK while START is
   up puts it in default drive mode; in default drive mode every tick invokes
   the built-in default update; the mode is left only when the user start
   action returns, which a press of START began; a release of START or BACK
   and a raw button event change no mode. *)
C14_BackToDefault ==
    /\ __cur_update = "default"
    /\ [][ /\ BackPressed => __cur_update' = "default"
           /\ (UpdateInvoked /\ __cur_update = "default") => lastUpdate' = "default"
           /\ (__cur_update = "default" /\ __cur_update' # "default")
                 => (ctl_pc = "user_start" /\ ctl_pc' = "idle")
           /\ (ctl_pc # "user_start" /\ ctl_pc' = "user_start") => StartPressed
           /\ (Released \/ __cur_down' # __cur_down) => __cur_update' = __cur_update
         ]_vars

\* a tick in user program mode published the user's command, BACK was
\* pressed, and the tick after it has invoked the default update
C14_Witness ==
    /\ __cur_back = 1 /\ __cur_start = 0
    /\ __cur_update = "default"
    /\ published # <<>> /\ published[1] # NewMessage
    /\ loop_pc = "drive_update"
    /\ lastUpdate = "default"

(* C15: for every button, once a commit has read the raw values after the
   button's latest raw callback, whether that callback ran between two
   commits or in the middle of one, is_down of the button is the value the
   callback wrote; once two commits have, the previous snapshot holds that
   value too, so was_pressed and was_released are false: the callback is
   not lost, and it gives one edge at most. *)
C15_CommitKeepsCallbacks ==
    \A b \in Members(Button) :
        LET age == rawAge[b.value]
        IN  /\ age \in {"1", "mid1", "2"} => is_down(b) = __cur_down[b.value]
            /\ age = "2" =>
                  /\ __was_down[b.value] = __cur_down[b.value]
                  /\ ~was_pressed(b) /\ ~was_released(b)

\* button A went down by a callback that ran in the middle of a commit; one
\* commit has read it since, and the tick after it sees the rising edge
C15_Witness ==
    /\ rawAge[Button.A.value] = "mid1"
    /\ __cur_down[Button.A.value]
    /\ loop_pc = "cur_update"
    /\ was_pressed(Button.A)

\* the raw accumulators and the committed snapshots of the Controller
rawState == <<__cur_down, __cur_trigger, __cur_joystick>>
committedState == <<__was_down, __is_down, __last_trigger, __last_joystick>>

\* the members of the Enum class an accessor expects
Accepted(name) ==
    CASE name = "get_trigger" -> Members(Trigger)
      [] name = "get_joystick" -> Members(Joystick)
      [] OTHER -> Members(Button)

\* the loop thread executes a statement of Controller.__update
CommitStep ==
    /\ loop_pc \in {"copy_was_down", "copy_is_down", "copy_trigger", "copy_joystick"}
    /\ loop_pc' # loop_pc

(* C16: a step that changes a raw accumulator (a raw callback) changes no
   committed snapshot; a step that changes a committed snapshot is a
   statement of Controller.__update and changes no raw accumulator; and
   over every other step each accessor, for each argument, returns what it
   returned before. *)
C16_SnapshotsChangeInCommitOnly ==
    [][ /\ rawState' # rawState => (committedState' = committedState /\ ~CommitStep)
        /\ committedState' # committedState => (CommitStep /\ rawState' = rawState)
        /\ ~CommitStep =>
              \A name \in Accessors : \A arg \in Accepted(name) :
                  Call(name, arg)' = Call(name, arg)
      ]_vars

\* between two commits: button A went down two ticks ago and its raw
\* callback "up" has arrived since the latest commit; is_down still returns
\* the committed value
C16_Witness ==
    /\ loop_pc = "drive_update"
    /\ ~__cur_down[Button.A.value]
    /\ is_down(Button.A) /\ __was_down[Button.A.value]

(* C17: in every state, also in the middle of a scan callback, the cached
   length is the number of elements of the cached ranges. *)
C17_NoTearing == __length = Len(__ranges)

\* the arguments of a call of set_speed_angle, clamped
Whole(c) == [speed |-> Clamped(c[1], MAX_SPEED * Resolution),
             angle |-> Clamped(c[2], MAX_ANGLE * Resolution)]

\* the commands that the program sets as a whole: those of the user's update
\* action and of the user thread, and (0, 0), which is the first pending
\* command, stop(), and the default update with the controls at rest
WholeCommands ==
    {Whole(c) : c \in ModeCommands \cup SetterCommands} \cup {NewMessage}

(* C18: every published command is a command that was set as a whole. *)
C18_WholeCommands ==
    published # <<>> => published[1] \in WholeCommands

\* the call in progress has no timeout and was made before any scan arrived
Blocking == get_call.timeout = "None" /\ ~get_call.arrivedBefore

(* C19 as stated: a call with no timeout made before any scan arrived
   returns the data of the scan that has arrived: the latest scan whose
   arrival has completed when the call returns. *)
C19_ReturnsArrivedScan ==
    [][(get_pc = "return" /\ get_pc' = "done" /\ Blocking) =>
          (arrived # <<>> /\ get_result'[1] = Returned(get_call.fn, arrived[1]))
      ]_vars

(* C19: a call of get_length / get_ranges with no timeout, made before any
   scan has arrived, waits, and goes on to its return only when the arrival
   of a scan has completed; once a scan has begun to arrive the call
   eventually returns; it returns the data of the latest scan whose arrival
   has completed, or of the scan that is arriving at that moment, never the
   initial empty snapshot; and the scan callback can always take its next
   step, whatever the reader does. *)
C19_BlockedUntilScan ==
    /\ [] /\ (get_pc # "idle" /\ Blocking) => get_waited
          /\ (get_pc \in {"return", "done"} /\ Blocking) => (arrived # <<>> /\ _event)
          /\ ENABLED scan_callback
    /\ [][(get_pc = "return" /\ get_pc' = "done" /\ Blocking) =>
            /\ arrived # <<>>
            /\ \/ get_result'[1] = Returned(get_call.fn, arrived[1])
               \/ /\ scan_pc # "idle"
                  /\ get_result'[1] = Returned(get_call.fn, scan_data)
         ]_vars
    /\ (get_pc = "wait" /\ Blocking /\ scan_pc # "idle") ~> (get_pc = "done")

\* a call of get_ranges with no timeout, made before any scan arrived, has
\* waited and has returned the scan of full length that arrived
C19_Witness ==
    /\ get_pc = "done"
    /\ get_call = [fn |-> "get_ranges", timeout |-> "None", arrivedBefore |-> FALSE]
    /\ get_waited
    /\ Len(get_result[1]) = MaxScanLen
    /\ get_result = arrived

(* C20: a press of START while BACK is up and no user start action is
   registered leaves the loop in default drive mode and leaves the controller
   thread ready to deliver the next event, so that a later press of START,
   after set_start_update, enters user program mode. *)
C20_StartWithoutProgram ==
    [][(StartPressed /\ __user_start = "None") =>
          (__cur_update' = "default" /\ ctl_pc' = "idle")
      ]_vars

----------------------------------------------------------------------------
\* what an accessor returns for an argument it does not accept
Default(name) ==
    CASE name = "get_trigger" -> <<0>>
      [] name = "get_joystick" -> <<Pair(0, 0)>>
      [] OTHER -> <<FALSE>>

(* C10: an accessor called with an argument that is no member of the Enum
   class it expects returns its default (False for is_down, was_pressed and
   was_released, 0 for get_trigger, (0, 0) for get_joystick), whatever the
   committed and the raw state of the Controller is, and the call leaves
   that state as it is. *)
C10_DefaultForNonMembers ==
    /\ [] ((acc_call # <<>> /\ ~isinstance(acc_call[2], Expects(acc_call[1])))
              => acc_result = Default(acc_call[1]))
    /\ [][acc_call' # acc_call =>
              UNCHANGED <<buttonVars, triggerVars, __last_joystick, __cur_joystick>>]_vars

\* get_trigger(0), an integer that is the value of Trigger.LEFT, returned 0
\* while the left trigger is committed down
C10_Witness ==
    /\ acc_call = <<"get_trigger", Member("int", 0)>>
    /\ __last_trigger[0] > 0
    /\ acc_result = <<0>>

====
